---- MODULE Spec2Model ----
(***************************************************************************)
(* Model of the tubely video upload pipeline (handlerUploadVideo and its   *)
(* two helpers processVideoForFastStart and getVideoAspectRatio).          *)
(*                                                                         *)
(* Every request is one run of the async handler.  A handler position (pc) *)
(* is an `await` of the source; one action is the continuation that runs   *)
(* from the completion of one await up to the start of the next one.       *)
(* Strings are modelled as sequences of string pieces, so that template    *)
(* literals, slice and indexOf are computed as the code computes them.     *)
(***************************************************************************)
EXTENDS Integers, Sequences, FiniteSets, TLC

\* ------------------------------------------------------------------ bounds
\* number of concurrent upload requests
NumReqs == 2

\* largest width and height classified on their own (besides RealSizes)
MaxDim == 40

Reqs == 1..NumReqs

\* ------------------------------------------------------- program constants
MAX_UPLOAD_SIZE == 1073741824

\* MAX_UPLOAD_SIZE of handlerUploadThumbnail (10 << 20)
MAX_THUMBNAIL_UPLOAD_SIZE == 10485760

\* configuration (cfg.assetsRoot, cfg.s3CfDistribution, cfg.port)
assetsRoot == "assets"
s3CfDistribution == "https://cdn.example"
port == "8091"

\* ------------------------------------------------------------ input domains
Users == {"alice", "bob"}
NoId == "<no id>"
VideoIds == {"v1", "v2"}
NoURL == <<>>
\* getVideo's "no such row" result
NoVideo == [id |-> NoId, userID |-> "<none>", videoURL |-> NoURL, thumbnailURL |-> NoURL]

MP4 == <<"video", "/", "mp4">>
PNG == <<"image", "/", "png">>
MediaTypes == {MP4, PNG}
NotAFile == [isFile |-> FALSE, size |-> 0, type |-> <<>>]
Payloads ==
  {NotAFile} \cup
  [isFile : {TRUE}, size : {MAX_UPLOAD_SIZE, MAX_UPLOAD_SIZE + 1}, type : MediaTypes]

Requests == [videoId : VideoIds \cup {NoId}, userID : Users, video : Payloads]

\* requests to handlerUploadThumbnail
JPEG == <<"image", "/", "jpeg">>
ThumbnailPayloads ==
  {NotAFile,
   [isFile |-> TRUE, size |-> MAX_THUMBNAIL_UPLOAD_SIZE, type |-> PNG],
   [isFile |-> TRUE, size |-> MAX_THUMBNAIL_UPLOAD_SIZE + 1, type |-> PNG],
   [isFile |-> TRUE, size |-> MAX_THUMBNAIL_UPLOAD_SIZE, type |-> MP4]}
ThumbnailRequests ==
  [videoId : VideoIds, userID : Users, thumbnail : ThumbnailPayloads] \cup
  {[videoId |-> NoId, userID |-> "alice", thumbnail |-> NotAFile]}
NoRequest == [videoId |-> NoId, userID |-> "<none>", video |-> NotAFile]

\* randomBytes(32).toString("base64url"): 256 random bits per call, so the
\* calls of different requests return different tokens; up to renaming, the
\* call made by request r returns the r-th token name
TokenNames == <<"tokA", "tokB", "tokC", "tokD">>
randomBytes(r) == TokenNames[r]

ExitCodes == {0, 1}

\* --------------------------------------------------------- string helpers
\* String.prototype.indexOf (0-based, -1 when absent)
IndexOf(s, c) ==
  IF \E i \in 1..Len(s) : s[i] = c
  THEN (CHOOSE i \in 1..Len(s) : s[i] = c /\ \A j \in 1..(i - 1) : s[j] # c) - 1
  ELSE -1

\* String.prototype.slice(start), start >= 0
Slice(s, start) == SubSeq(s, start + 1, Len(s))

\* video.type.slice(video.type.indexOf("/") + 1)
Extension(type) == Slice(type, IndexOf(type, "/") + 1)

\* mutant: the file is named after its type alone, without the random token
FileNameOf_NoToken(token, type) == <<"upload", ".">> \o Extension(type)

\* `${randomBytes(32).toString("base64url")}.${extension}`
FileNameOf(token, type) == <<token, ".">> \o Extension(type)

\* path.join(cfg.assetsRoot, fileName)
FilePathOf(name) == <<assetsRoot, "/">> \o name

\* `${inputFilePath}.processed`
OutputFilePathOf(inputFilePath) == inputFilePath \o <<".processed">>

\* the key of the older handler: the file name, without the class
KeyOf_NoClass(class, name) == name

\* `${aspectRatio}/${fileName}`
KeyOf(class, name) == <<class, "/">> \o name

\* mutant: the URL names the file without its class directory
UrlOf_FileName(key) == <<s3CfDistribution, "/">> \o Slice(key, 2)

\* `${cfg.s3CfDistribution}/${fileNameWithAspectRatio}`
UrlOf(key) == <<s3CfDistribution, "/">> \o key

NoName == <<>>
NoKey == <<>>

\* `${videoId}.${thumbnail.type.slice(thumbnail.type.indexOf("/") + 1)}`
ThumbnailFileNameOf(videoId, type) == <<videoId, ".">> \o Extension(type)

\* `http://localhost:${cfg.port}/assets/${fileName}`
ThumbnailUrlOf(name) == <<"http://localhost:", port, "/assets/">> \o name

\* ------------------------------------------------- ffprobe output (JSON)
\* a JSON value is [t |-> type tag, v |-> payload]
JUndefined == [t |-> "undefined", v |-> 0]
JNull == [t |-> "null", v |-> 0]
JNum(n) == [t |-> "num", v |-> n]
JStr(s) == [t |-> "str", v |-> s]
JArr(a) == [t |-> "arr", v |-> a]
JObj(o) == [t |-> "obj", v |-> o]

\* the typeof operator
TypeOf(j) ==
  CASE j.t = "undefined" -> "undefined"
    [] j.t = "num" -> "number"
    [] j.t = "str" -> "string"
    [] OTHER -> "object"

\* property access j[k]; reading a property of undefined or null throws
Throws(j) == j.t \in {"undefined", "null"}
Get(j, k) ==
  CASE j.t = "obj" -> IF k \in DOMAIN j.v THEN j.v[k] ELSE JUndefined
    [] j.t = "arr" -> IF k \in DOMAIN j.v THEN j.v[k] ELSE JUndefined
    [] OTHER -> JUndefined

Stream(w, h) == JObj([width |-> w, height |-> h])
Streams(a) == JObj([streams |-> JArr(a)])

\* what ffprobe may print on stdout when it exits 0
Unparsable == [parsable |-> FALSE, json |-> JUndefined]
Parsed(j) == [parsable |-> TRUE, json |-> j]
ProbeOutputs ==
  << Parsed(Streams(<<Stream(JNum(1080), JNum(1920))>>)),
     Parsed(Streams(<<Stream(JNum(1920), JNum(1080))>>)),
     Parsed(Streams(<<Stream(JNum(1), JNum(1))>>)),
     Parsed(Streams(<<Stream(JNum(0), JNum(1))>>)),
     Unparsable,
     Parsed(JNum(7)),
     Parsed(JNull),
     Parsed(JObj([programs |-> JArr(<<>>)])),
     Parsed(JObj([streams |-> JStr("x")])),
     Parsed(JObj([streams |-> JNull])),
     Parsed(Streams(<<>>)),
     Parsed(Streams(<<JObj([height |-> JNum(1)])>>)),
     Parsed(Streams(<<Stream(JStr("1080"), JNum(1920))>>)),
     Parsed(Streams(<<Stream(JNum(1080), JNull)>>)) >>

Abs(x) == IF x < 0 THEN -x ELSE x

\* The two tolerance tests, in exact arithmetic.  The doubles the code computes
\* give the same answers: for integer sizes the two sides differ by at least
\* 1/(900 * width) unless they are equal, and the pairs where they are equal
\* (width = 900j, height = 1609j or 1591j; width = 400j, height = 229j or 221j)
\* evaluate to 0.010000000000000009, which is not below 0.01 either.  A zero
\* width gives Infinity or NaN, which passes neither test.
\* Math.abs(aspectRatio - portrait) < tolerance
InPortraitBand(width, height) ==
  width # 0 /\ 100 * Abs(9 * height - 16 * width) < 9 * Abs(width)

\* Math.abs(aspectRatio - landscape) < tolerance
InLandscapeBand(width, height) ==
  width # 0 /\ 100 * Abs(16 * height - 9 * width) < 16 * Abs(width)

\* mutant: the ratio is taken as width / height
Classify_WidthOverHeight(width, height) ==
  IF InPortraitBand(height, width) THEN "portrait"
  ELSE IF InLandscapeBand(height, width) THEN "landscape"
  ELSE "other"

\* lines 105-112 of getVideoAspectRatio, with aspectRatio = height / width
Classify(width, height) ==
  IF InPortraitBand(width, height) THEN "portrait"
  ELSE IF InLandscapeBand(width, height) THEN "landscape"
  ELSE "other"

FormatError == "Video metadata JSON doesn't match expected format."

\* the part of getVideoAspectRatio after a zero exit: parse, validate, classify
ParseAspectRatio(stdout) ==
  IF ~stdout.parsable THEN [ok |-> FALSE, value |-> "SyntaxError"]
  ELSE LET parsedOutputText == stdout.json
           streams == Get(parsedOutputText, "streams")
           streamZero == Get(streams, 1)
       IN IF \/ TypeOf(parsedOutputText) # "object"
             \/ parsedOutputText = JNull
             \/ TypeOf(streams) # "object"
          THEN [ok |-> FALSE, value |-> FormatError]
          ELSE IF Throws(streams) \/ Throws(streamZero)
          THEN [ok |-> FALSE, value |-> "TypeError"]
          ELSE IF \/ TypeOf(Get(streamZero, "width")) # "number"
                  \/ TypeOf(Get(streamZero, "height")) # "number"
          THEN [ok |-> FALSE, value |-> FormatError]
          ELSE [ok |-> TRUE,
                value |-> Classify(Get(streamZero, "width").v, Get(streamZero, "height").v)]

\* ------------------------------------------------------------------ state
VARIABLES
  pc,             \* per request: the await the handler is suspended at
  req,            \* per request: the request it was called with
  videoMetadata,  \* per request: the handler's copy of the video row
  fileName,       \* per request: `${token}.${ext}`
  key,            \* per request: fileNameWithAspectRatio
  proc,           \* per request: state of the subprocess it awaits
  outcome,        \* per request: the response returned or the error thrown
  files,          \* paths that exist under the assets root
  s3,             \* keys that hold an object in the bucket
  db,             \* the videos table: id -> row
  created,        \* history: paths the request (or its ffmpeg) created
  spawned,        \* history: subprocesses the request spawned, in order
  s3puts,         \* history: keys the request wrote to the bucket
  updates,        \* history: number of updateVideo calls the request made
  fault,          \* history: the failure the environment injected, if any
  aspectRatio,    \* per request: the class getVideoAspectRatio returned
  writing,        \* per request: paths of Bun.write calls that were not awaited
  probe           \* width, height and class of one classification on its own

vars == <<pc, req, videoMetadata, fileName, key, proc, outcome, files, s3, db,
          created, spawned, s3puts, updates, fault, aspectRatio, writing, probe>>

NoClass == "<none>"
NoProbe == [width |-> 0, height |-> 0, class |-> NoClass]

NoOutcome == [kind |-> "none", message |-> ""]
Thrown(kind, message) == [kind |-> kind, message |-> message]
Response(status) == [kind |-> "Response", message |-> status]

filePath(r) == FilePathOf(fileName[r])

\* mutant: the later stages are handed the raw file, as in the older handler
processedFilePath_Raw(r) == filePath(r)

processedFilePath(r) == OutputFilePathOf(filePath(r))

\* the rows the database holds when the server starts
InitialDb ==
  [v \in VideoIds |->
     IF v = "v1"
     THEN [id |-> "v1", userID |-> "alice", videoURL |-> NoURL, thumbnailURL |-> NoURL]
     ELSE NoVideo]

\* no request has arrived yet
ServerInit ==
  /\ pc = [r \in Reqs |-> "idle"]
  /\ req = [r \in Reqs |-> NoRequest]
  /\ videoMetadata = [r \in Reqs |-> NoVideo]
  /\ fileName = [r \in Reqs |-> NoName]
  /\ key = [r \in Reqs |-> NoKey]
  /\ proc = [r \in Reqs |-> "none"]
  /\ outcome = [r \in Reqs |-> NoOutcome]
  /\ files = {}
  /\ s3 = {}
  /\ db = InitialDb
  /\ created = [r \in Reqs |-> {}]
  /\ spawned = [r \in Reqs |-> <<>>]
  /\ s3puts = [r \in Reqs |-> {}]
  /\ updates = [r \in Reqs |-> 0]
  /\ fault = [r \in Reqs |-> "none"]
  /\ aspectRatio = [r \in Reqs |-> NoClass]
  /\ writing = [r \in Reqs |-> {}]

Init == ServerInit /\ probe = NoProbe

\* --------------------------------------------------- collaborators (db)
\* getVideo(cfg.db, videoId): the row, or nothing
getVideo(database, videoId) == database[videoId]

\* updateVideo(cfg.db, video): overwrite the row of that id with the given value
updateVideo(database, video) ==
  IF video.id \in DOMAIN database /\ database[video.id] # NoVideo
  THEN [database EXCEPT ![video.id] = video]
  ELSE database

\* ------------------------------------------------ handler: request checks
\* if (!videoId)
InvalidId(videoId) == videoId = NoId

\* if (!videoMetadata)
NotFound(video) == video = NoVideo

\* mutant: the ownership check is left out
Forbidden_Never(video, userID) == FALSE

\* if (videoMetadata.userID !== userID)
Forbidden(video, userID) == video.userID # userID

\* if (!(video instanceof File))
NotFile(video) == ~video.isFile

\* if (video.size > MAX_UPLOAD_SIZE)
TooBig(size) == size > MAX_UPLOAD_SIZE

\* mutant: the media type check is left out
BadType_Never(mediaType) == FALSE

\* if (!(mediaType === "video/mp4"))
BadType(mediaType) == mediaType # MP4

\* lines 14-40 of handlerUploadVideo: the error thrown, or NoOutcome
ValidationError(request, database) ==
  IF InvalidId(request.videoId)
  THEN Thrown("BadRequestError", "Invalid video ID")
  ELSE IF NotFound(getVideo(database, request.videoId))
  THEN Thrown("NotFoundError", "Video not found.")
  ELSE IF Forbidden(getVideo(database, request.videoId), request.userID)
  THEN Thrown("UserForbiddenError", "Forbidden.")
  ELSE IF NotFile(request.video)
  THEN Thrown("BadRequestError", "Thumbnail was not a File.")
  ELSE IF TooBig(request.video.size)
  THEN Thrown("BadRequestError", "Thumbnail file size is too big.")
  ELSE IF BadType(request.video.type)
  THEN Thrown("BadRequestError", "Bad File Type.")
  ELSE NoOutcome

\* ------------------------------------------------- handler: await results
\* mutant: ffmpeg's exit code is ignored
NormalizerFailed_Never(exitCode) == FALSE

\* if (exitCode !== 0) in processVideoForFastStart
NormalizerFailed(exitCode) == exitCode # 0

\* mutant: ffprobe's exit code is ignored
ProberFailed_Never(exitCode) == FALSE

\* if (await subprocess.exited != 0) in getVideoAspectRatio
ProberFailed(exitCode) == exitCode # 0

\* mutant: a URL that is already set is kept (first writer wins)
WithVideoURL_KeepExisting(video, url) ==
  IF video.videoURL = NoURL THEN [video EXCEPT !.videoURL = url] ELSE video

\* videoMetadata.videoURL = url
WithVideoURL(video, url) == [video EXCEPT !.videoURL = url]

\* mutant: the delete is never carried out
Delete_Noop(fs, path) == fs

\* await Bun.file(path).delete()
Delete(fs, path) == fs \ {path}

\* the first failure injected into a request is the one on record
Inject(r, f) == IF fault[r] = "none" THEN [fault EXCEPT ![r] = f] ELSE fault

\* the handler returns or throws: its locals (the row copy, the key) are gone;
\* fileName is kept as the record of the token the request drew
Exit(r, result) ==
  /\ pc' = [pc EXCEPT ![r] = "done"]
  /\ outcome' = [outcome EXCEPT ![r] = result]
  /\ proc' = [proc EXCEPT ![r] = "none"]
  /\ videoMetadata' = [videoMetadata EXCEPT ![r] = NoVideo]
  /\ key' = [key EXCEPT ![r] = NoKey]
  /\ aspectRatio' = [aspectRatio EXCEPT ![r] = NoClass]

\* Bun.spawn([tool, ...]) and suspend on subprocess.exited
Spawn(r, tool, path) ==
  /\ spawned' = [spawned EXCEPT ![r] = Append(@, <<tool, path>>)]
  /\ proc' = [proc EXCEPT ![r] = "running"]
  /\ UNCHANGED <<outcome, videoMetadata, key, aspectRatio>>

\* the output the analysis process is required to print: a JSON object whose
\* streams array has a first element with numeric width and height
WellFormed(stdout) ==
  /\ stdout.parsable
  /\ stdout.json.t = "obj"
  /\ "streams" \in DOMAIN stdout.json.v
  /\ stdout.json.v.streams.t = "arr"
  /\ Len(stdout.json.v.streams.v) >= 1
  /\ LET first == stdout.json.v.streams.v[1]
     IN /\ first.t = "obj"
        /\ {"width", "height"} \subseteq DOMAIN first.v
        /\ first.v.width.t = "num"
        /\ first.v.height.t = "num"

\* ------------------------------------- handlerUploadThumbnail: checks
\* if (thumbnail.size > MAX_UPLOAD_SIZE)
ThumbnailTooBig(size) == size > MAX_THUMBNAIL_UPLOAD_SIZE

\* if (!(mediaType === "image/jpeg" || mediaType === "image/png"))
ThumbnailBadType(mediaType) == ~(mediaType = JPEG \/ mediaType = PNG)

\* lines 10-34 of handlerUploadThumbnail: the error thrown, or NoOutcome
ThumbnailValidationError(request) ==
  IF request.videoId = NoId
  THEN Thrown("BadRequestError", "Invalid video ID")
  ELSE IF ~request.thumbnail.isFile
  THEN Thrown("BadRequestError", "Thumbnail was not a File.")
  ELSE IF ThumbnailTooBig(request.thumbnail.size)
  THEN Thrown("BadRequestError", "Thumbnail file size is too big.")
  ELSE IF ThumbnailBadType(request.thumbnail.type)
  THEN Thrown("BadRequestError", "Bad File Type.")
  ELSE NoOutcome

\* if (!videoMetadata) in handlerUploadThumbnail
ThumbnailNotFound(video) == video = NoVideo

\* if (videoMetadata.userID !== userID) in handlerUploadThumbnail
ThumbnailForbidden(video, userID) == video.userID # userID

\* videoMetadata.thumbnailURL = url
WithThumbnailURL(video, url) == [video EXCEPT !.thumbnailURL = url]

\* which handler the request was routed to
IsVideo(r) == pc[r] # "idle" /\ "video" \in DOMAIN req[r]
IsThumbnail(r) == pc[r] # "idle" /\ "thumbnail" \in DOMAIN req[r]

\* ---------------------------------------------------------------- actions
\* lines 11-45: the request arrives, is checked, and the raw write is started
ReceiveRequest(r) ==
  /\ pc[r] = "idle"
  /\ \E request \in Requests :
       /\ req' = [req EXCEPT ![r] = request]
       /\ LET error == ValidationError(request, db)
          IN IF error # NoOutcome
             THEN /\ Exit(r, error)
                  /\ UNCHANGED fileName
             ELSE /\ videoMetadata' =
                       [videoMetadata EXCEPT ![r] = getVideo(db, request.videoId)]
                  /\ fileName' =
                       [fileName EXCEPT ![r] = FileNameOf(randomBytes(r), request.video.type)]
                  /\ pc' = [pc EXCEPT ![r] = "write"]
                  /\ UNCHANGED <<outcome, proc, key, aspectRatio>>
  /\ UNCHANGED <<files, s3, db, created, spawned, s3puts, updates, fault, writing, probe>>

\* line 45 completes; lines 48, 115-125: ffmpeg is spawned on the raw file
RawWritten(r) ==
  /\ pc[r] = "write"
  /\ \E ok \in BOOLEAN, partial \in BOOLEAN, canSpawn \in BOOLEAN :
       IF ~ok
       THEN \* Bun.write rejects; a partial file may be left behind
            /\ files' = IF partial THEN files \cup {filePath(r)} ELSE files
            /\ created' = IF partial THEN [created EXCEPT ![r] = @ \cup {filePath(r)}]
                          ELSE created
            /\ fault' = Inject(r, "stage")
            /\ Exit(r, Thrown("Error", "write failed"))
            /\ UNCHANGED spawned
       ELSE /\ files' = files \cup {filePath(r)}
            /\ created' = [created EXCEPT ![r] = @ \cup {filePath(r)}]
            /\ IF ~canSpawn
               THEN \* Bun.spawn throws: no ffmpeg executable
                    /\ fault' = Inject(r, "normalize-spawn")
                    /\ Exit(r, Thrown("Error", "spawn failed"))
                    /\ UNCHANGED spawned
               ELSE /\ Spawn(r, "ffmpeg", filePath(r))
                    /\ pc' = [pc EXCEPT ![r] = "ffmpeg"]
                    /\ UNCHANGED fault
  /\ UNCHANGED <<req, fileName, s3, db, s3puts, updates, writing, probe>>

\* lines 125-131 and 51: ffmpeg exits; on success the raw delete is started
NormalizerExited(r) ==
  /\ pc[r] = "ffmpeg"
  /\ proc[r] = "running"
  /\ \E exitCode \in ExitCodes, leftover \in BOOLEAN :
       LET output == IF exitCode = 0 \/ leftover
                     THEN {OutputFilePathOf(filePath(r))} ELSE {}
       IN /\ files' = files \cup output
          /\ created' = [created EXCEPT ![r] = @ \cup output]
          /\ fault' = IF exitCode # 0 THEN Inject(r, "normalize-exit") ELSE fault
          /\ IF NormalizerFailed(exitCode)
             THEN Exit(r, Thrown("Error", "ffmpeg failed"))
             ELSE /\ pc' = [pc EXCEPT ![r] = "deleteRaw"]
                  /\ proc' = [proc EXCEPT ![r] = "none"]
                  /\ UNCHANGED <<outcome, videoMetadata, key, aspectRatio>>
  /\ UNCHANGED <<req, fileName, s3, db, spawned, s3puts, updates, writing, probe>>

\* line 51 completes; lines 54, 75-84: ffprobe is spawned on the processed file
RawDeleted(r) ==
  /\ pc[r] = "deleteRaw"
  /\ files' = Delete(files, filePath(r))
  /\ \E canSpawn \in BOOLEAN :
       IF ~canSpawn
       THEN /\ fault' = Inject(r, "probe-spawn")
            /\ Exit(r, Thrown("Error", "spawn failed"))
            /\ UNCHANGED spawned
       ELSE /\ Spawn(r, "ffprobe", processedFilePath(r))
            /\ pc' = [pc EXCEPT ![r] = "ffprobe"]
            /\ UNCHANGED fault
  /\ UNCHANGED <<req, fileName, s3, db, created, s3puts, updates, writing, probe>>

\* lines 84-112 and 55-59: ffprobe exits; its output is parsed and classified,
\* the key is derived and the object-store write is started
ProberExited(r) ==
  /\ pc[r] = "ffprobe"
  /\ proc[r] = "running"
  /\ \E exitCode \in ExitCodes, i \in DOMAIN ProbeOutputs :
       LET stdout == ProbeOutputs[i]
           result == ParseAspectRatio(stdout)
       IN /\ fault' = IF exitCode # 0 THEN Inject(r, "probe-exit")
                      ELSE IF ~WellFormed(stdout) THEN Inject(r, "probe-output")
                      ELSE fault
          /\ IF ProberFailed(exitCode)
             THEN Exit(r, Thrown("Error", "ffprobe failed"))
             ELSE IF ~result.ok
             THEN Exit(r, Thrown(IF result.value = FormatError THEN "Error"
                                 ELSE result.value, result.value))
             ELSE /\ aspectRatio' = [aspectRatio EXCEPT ![r] = result.value]
                  /\ key' = [key EXCEPT ![r] = KeyOf(aspectRatio'[r], fileName[r])]
                  /\ pc' = [pc EXCEPT ![r] = "s3write"]
                  /\ proc' = [proc EXCEPT ![r] = "none"]
                  /\ UNCHANGED <<outcome, videoMetadata>>
  /\ UNCHANGED <<req, fileName, files, s3, db, created, spawned, s3puts, updates,
                 writing, probe>>

\* lines 59-70: the object-store write completes; the URL is set on the
\* handler's copy of the row, the row is updated and the last delete is started
Published(r) ==
  /\ pc[r] = "s3write"
  /\ \E ok \in BOOLEAN, committed \in BOOLEAN :
       IF ~ok
       THEN \* fileOnS3.write rejects
            /\ fault' = Inject(r, "publish")
            /\ Exit(r, Thrown("Error", "s3 write failed"))
            /\ UNCHANGED <<s3, s3puts, db, updates>>
       ELSE /\ s3' = s3 \cup {key[r]}
            /\ s3puts' = [s3puts EXCEPT ![r] = @ \cup {key[r]}]
            /\ updates' = [updates EXCEPT ![r] = @ + 1]
            /\ IF ~committed
               THEN \* updateVideo throws
                    /\ fault' = Inject(r, "commit")
                    /\ Exit(r, Thrown("Error", "update failed"))
                    /\ UNCHANGED db
               ELSE /\ videoMetadata' =
                         [videoMetadata EXCEPT ![r] = WithVideoURL(@, UrlOf(key[r]))]
                    /\ db' = updateVideo(db, videoMetadata'[r])
                    /\ pc' = [pc EXCEPT ![r] = "deleteProcessed"]
                    /\ UNCHANGED <<fault, outcome, proc, key, aspectRatio>>
  /\ UNCHANGED <<req, fileName, files, created, spawned, writing, probe>>

\* lines 70-72: the processed file is deleted and the 200 response returned
ProcessedDeleted(r) ==
  /\ pc[r] = "deleteProcessed"
  /\ files' = Delete(files, processedFilePath(r))
  /\ Exit(r, Response("200"))
  /\ UNCHANGED <<req, fileName, s3, db, created, spawned, s3puts, updates, fault,
                 writing, probe>>

\* the environment: a spawned process stops making progress and never exits
\* (neither helper passes a timeout or a signal to Bun.spawn)
ProcessStalls(r) ==
  /\ proc[r] = "running"
  /\ proc' = [proc EXCEPT ![r] = "stalled"]
  /\ fault' = Inject(r, IF pc[r] = "ffmpeg" THEN "normalize-stall" ELSE "probe-stall")
  /\ UNCHANGED <<pc, req, videoMetadata, fileName, key, outcome, files, s3, db,
                 created, spawned, s3puts, updates, aspectRatio, writing, probe>>

\* handlerUploadThumbnail lines 9-37: the request arrives and the payload is
\* checked; the handler then awaits the bytes of the thumbnail
ReceiveThumbnail(r) ==
  /\ pc[r] = "idle"
  /\ \E request \in ThumbnailRequests :
       /\ req' = [req EXCEPT ![r] = request]
       /\ LET error == ThumbnailValidationError(request)
          IN IF error # NoOutcome
             THEN Exit(r, error)
             ELSE /\ pc' = [pc EXCEPT ![r] = "arrayBuffer"]
                  /\ UNCHANGED <<outcome, proc, videoMetadata, key, aspectRatio>>
  /\ UNCHANGED <<fileName, files, s3, db, created, spawned, s3puts, updates, fault,
                 writing, probe>>

\* handlerUploadThumbnail lines 37-55: Bun.write is called and not awaited; then
\* the row is fetched and checked, its thumbnailURL set, and the row updated
StoreThumbnail(r) ==
  /\ pc[r] = "arrayBuffer"
  /\ fileName' = [fileName EXCEPT
                    ![r] = ThumbnailFileNameOf(req[r].videoId, req[r].thumbnail.type)]
  /\ writing' = [writing EXCEPT ![r] = {FilePathOf(fileName'[r])}]
  /\ LET video == getVideo(db, req[r].videoId)
     IN IF ThumbnailNotFound(video)
        THEN /\ Exit(r, Thrown("NotFoundError", "Video not found."))
             /\ UNCHANGED <<db, updates, fault>>
        ELSE IF ThumbnailForbidden(video, req[r].userID)
        THEN /\ Exit(r, Thrown("UserForbiddenError", "Forbidden."))
             /\ UNCHANGED <<db, updates, fault>>
        ELSE /\ updates' = [updates EXCEPT ![r] = @ + 1]
             /\ \E committed \in BOOLEAN :
                  IF ~committed
                  THEN \* updateVideo throws
                       /\ fault' = Inject(r, "commit")
                       /\ Exit(r, Thrown("Error", "update failed"))
                       /\ UNCHANGED db
                  ELSE /\ db' = updateVideo(db, WithThumbnailURL(video,
                                                ThumbnailUrlOf(fileName'[r])))
                       /\ Exit(r, Response("200"))
                       /\ UNCHANGED fault
  /\ UNCHANGED <<req, files, s3, created, spawned, s3puts, probe>>

\* handlerUploadThumbnail line 42: the write that nobody awaits reaches the disk
ThumbnailWritten(r) ==
  /\ writing[r] # {}
  /\ files' = files \cup writing[r]
  /\ created' = [created EXCEPT ![r] = @ \cup writing[r]]
  /\ writing' = [writing EXCEPT ![r] = {}]
  /\ UNCHANGED <<pc, req, videoMetadata, fileName, key, proc, outcome, s3, db,
                 spawned, s3puts, updates, fault, aspectRatio, probe>>

Next ==
  \E r \in Reqs :
    \/ ReceiveRequest(r)
    \/ RawWritten(r)
    \/ NormalizerExited(r)
    \/ RawDeleted(r)
    \/ ProberExited(r)
    \/ Published(r)
    \/ ProcessedDeleted(r)
    \/ ProcessStalls(r)
    \/ ReceiveThumbnail(r)
    \/ StoreThumbnail(r)
    \/ ThumbnailWritten(r)

Spec == Init /\ [][Next]_vars

\* ------------------------------------- the classification on its own
\* frame sizes beyond MaxDim: full HD both ways, a ratio of 1.778, and the
\* sizes that lie exactly on the edge of a band
RealSizes ==
  {<<1080, 1920>>, <<1920, 1080>>, <<1000, 1778>>, <<900, 1609>>, <<900, 1591>>,
   <<400, 229>>, <<400, 221>>}

Sizes == ((1..MaxDim) \X (1..MaxDim)) \cup RealSizes

ClassifyInit ==
  /\ ServerInit
  /\ probe \in {[width |-> d[1], height |-> d[2], class |-> NoClass] : d \in Sizes}

\* lines 105-112 applied to streamZero.width and streamZero.height
ClassifyStep ==
  /\ probe.class = NoClass
  /\ probe' = [probe EXCEPT !.class = Classify(probe.width, probe.height)]
  /\ UNCHANGED <<pc, req, videoMetadata, fileName, key, proc, outcome, files, s3, db,
                 created, spawned, s3puts, updates, fault, aspectRatio, writing>>

ClassifySpec == ClassifyInit /\ [][ClassifyStep]_vars

\* the steps of request r's handler (not the environment's ProcessStalls)
HandlerStep(r) ==
  \/ ReceiveRequest(r)
  \/ RawWritten(r)
  \/ NormalizerExited(r)
  \/ RawDeleted(r)
  \/ ProberExited(r)
  \/ Published(r)
  \/ ProcessedDeleted(r)
  \/ ReceiveThumbnail(r)
  \/ StoreThumbnail(r)
  \/ ThumbnailWritten(r)

\* the event loop runs every continuation whose await has completed, file and
\* network operations complete, and a process that has not stalled exits
FairSpec == Spec /\ \A r \in Reqs : WF_vars(HandlerStep(r))

TypeOK ==
  /\ pc \in [Reqs -> {"idle", "write", "ffmpeg", "deleteRaw", "ffprobe", "s3write",
                      "deleteProcessed", "arrayBuffer", "done"}]
  /\ proc \in [Reqs -> {"none", "running", "stalled"}]
  /\ updates \in [Reqs -> 0..1]

\* ------------------------------------------------------- claim vocabulary
\* staged files created by request r that are still under the assets root
StagedFiles(r) == created[r] \cap files

\* what request r did to the world outside its own locals
SideEffects(r) == <<created[r], spawned[r], s3puts[r], updates[r]>>
NoSideEffects == <<{}, <<>>, {}, 0>>

Tools(r) == {spawned[r][i][1] : i \in DOMAIN spawned[r]}

RecordExists(r) == req[r].videoId \in VideoIds /\ db[req[r].videoId] # NoVideo
CallerOwns(r) == RecordExists(r) /\ db[req[r].videoId].userID = req[r].userID
PayloadAbsent(r) == ~req[r].video.isFile
PayloadOversized(r) == req[r].video.isFile /\ req[r].video.size > MAX_UPLOAD_SIZE
PayloadMistyped(r) == req[r].video.isFile /\ req[r].video.type # <<"video", "/", "mp4">>
PayloadBad(r) == PayloadAbsent(r) \/ PayloadOversized(r) \/ PayloadMistyped(r)
Accepted(r) == IsVideo(r) /\ CallerOwns(r) /\ ~PayloadBad(r)

\* failures injected before the metadata commit
StageFaults ==
  {"stage", "normalize-spawn", "normalize-exit", "probe-spawn", "probe-exit",
   "probe-output", "publish"}

\* ------------------------------------------------------------------ claims
\* C1: whichever step the handler ends at, once it has returned or thrown no
\* staged file created by that request (raw or normalized) is left in the
\* assets root.  (Violated: no failure branch deletes anything.)
C1_NoStagedFileAfterExit ==
  \A r \in Reqs : (IsVideo(r) /\ pc[r] = "done") => StagedFiles(r) = {}

\* C2: an accepted upload in which staging, normalize, probe, publish and the
\* metadata commit all succeed returns 200 with both the raw and the
\* normalized staged file written and deleted again.
C2_SuccessLeavesNoFiles ==
  \A r \in Reqs :
    (pc[r] = "done" /\ Accepted(r) /\ fault[r] = "none") =>
      /\ outcome[r] = Response("200")
      /\ created[r] = {filePath(r), processedFilePath(r)}
      /\ filePath(r) \notin files
      /\ processedFilePath(r) \notin files

C2_Witness ==
  \E r \in Reqs :
    /\ pc[r] = "done" /\ Accepted(r) /\ fault[r] = "none"
    /\ outcome[r] = Response("200")
    /\ s3puts[r] # {}

\* C3: when ffmpeg exits non-zero, the raw staged file of the request has been
\* deleted by the time the failure is surfaced.  (Violated.)
C3_NormalizerFailureDeletesRaw ==
  \A r \in Reqs :
    (pc[r] = "done" /\ fault[r] = "normalize-exit") => filePath(r) \notin files

\* C4: when ffprobe exits non-zero or prints output of the wrong shape, the
\* normalized staged file has been deleted by the time the failure is
\* surfaced.  (Violated.)
C4_ProberFailureDeletesProcessed ==
  \A r \in Reqs :
    (pc[r] = "done" /\ fault[r] \in {"probe-exit", "probe-output"}) =>
      processedFilePath(r) \notin files

\* C5: when the object-store write fails, the normalized staged file has been
\* deleted by the time the failure is surfaced.  (Violated.)
C5_PublishFailureDeletesProcessed ==
  \A r \in Reqs :
    (pc[r] = "done" /\ fault[r] = "publish") => processedFilePath(r) \notin files

\* C6: when ffmpeg exits non-zero the request ends there with an error: ffprobe
\* is never spawned, nothing is written to the object store and updateVideo is
\* not called.
C6_NormalizerFailureStopsPipeline ==
  \A r \in Reqs :
    fault[r] = "normalize-exit" =>
      /\ pc[r] = "done"
      /\ outcome[r] = Thrown("Error", "ffmpeg failed")
      /\ spawned[r] = << <<"ffmpeg", filePath(r)>> >>
      /\ s3puts[r] = {}
      /\ updates[r] = 0

C6_Witness ==
  \E r \in Reqs :
    /\ fault[r] = "normalize-exit"
    /\ pc[r] = "done"
    /\ Len(spawned[r]) = 1

\* C7: a request into which a failure was injected at staging, normalize, probe
\* or publish has made no updateVideo call, and the videos table changes only
\* in a step in which a request without such a failure calls updateVideo; so
\* the failing request leaves the row, and its videoURL, as they were.
C7_FailureLeavesRecordUnmodified ==
  [][/\ \A r \in Reqs : fault'[r] \in StageFaults => updates'[r] = 0
     /\ db' # db =>
          \E q \in Reqs : /\ updates'[q] = updates[q] + 1
                          /\ fault'[q] \notin StageFaults]_vars

C7_Witness ==
  /\ \A v \in VideoIds : db[v].videoURL = NoURL
  /\ \E r \in Reqs : pc[r] = "done" /\ fault[r] = "publish"
  /\ \E r \in Reqs : pc[r] = "done" /\ fault[r] = "probe-output"

\* C8: a request for an absent record fails with NotFound and a request by a
\* caller who does not own the record fails with Forbidden, both without any
\* side effect; and only a request whose caller owns the record ever writes
\* to the object store.
C8_OwnershipBoundary ==
  \A r \in Reqs :
    IsVideo(r) =>
      /\ (req[r].videoId \in VideoIds /\ ~RecordExists(r)) =>
           /\ pc[r] = "done"
           /\ outcome[r] = Thrown("NotFoundError", "Video not found.")
           /\ SideEffects(r) = NoSideEffects
      /\ (RecordExists(r) /\ ~CallerOwns(r)) =>
           /\ pc[r] = "done"
           /\ outcome[r] = Thrown("UserForbiddenError", "Forbidden.")
           /\ SideEffects(r) = NoSideEffects
      /\ s3puts[r] # {} => CallerOwns(r)

C8_Witness ==
  \E r, q \in Reqs :
    /\ outcome[r].kind = "NotFoundError"
    /\ outcome[q].kind = "UserForbiddenError"
    /\ files = {} /\ s3 = {} /\ db = InitialDb

\* C9: a request whose payload is absent, oversized or of a type other than
\* video/mp4 is rejected with a 4xx error (BadRequest when the caller owns the
\* record) without any side effect; the mistyped rejection has the same
\* side effects as the oversized one.
C9_BadPayloadRejectedWithoutEffects ==
  /\ \A r \in Reqs :
       (IsVideo(r) /\ PayloadBad(r)) =>
         /\ pc[r] = "done"
         /\ outcome[r].kind \in {"BadRequestError", "NotFoundError", "UserForbiddenError"}
         /\ CallerOwns(r) => outcome[r].kind = "BadRequestError"
         /\ SideEffects(r) = NoSideEffects
  /\ \A r, q \in Reqs :
       (IsVideo(r) /\ IsVideo(q) /\ PayloadOversized(r) /\ PayloadMistyped(q)) =>
         SideEffects(r) = SideEffects(q)

C9_Witness ==
  \E r, q \in Reqs :
    /\ IsVideo(r) /\ IsVideo(q)
    /\ CallerOwns(r) /\ PayloadOversized(r) /\ ~PayloadMistyped(r)
    /\ CallerOwns(q) /\ PayloadMistyped(q) /\ ~PayloadOversized(q)
    /\ outcome[r] = Thrown("BadRequestError", "Thumbnail file size is too big.")
    /\ outcome[q] = Thrown("BadRequestError", "Bad File Type.")

\* C10: under fairness every request that has arrived eventually returns or
\* throws, even if a spawned process stalls.  (Violated: the handler awaits
\* subprocess.exited with no timeout, so a stalled process hangs it for ever.)
C10_EveryRequestTerminates ==
  \A r \in Reqs : IsVideo(r) ~> (pc[r] = "done")

\* C11: the classification is total and is decided by the two tolerance tests
\* on ratio = height / width: portrait exactly when |ratio - 16/9| < 1/100,
\* landscape exactly when that fails and |ratio - 9/16| < 1/100, other in every
\* remaining case; ratio 16/9 is portrait, 9/16 landscape, 1 other, and no size
\* passes both tests, so testing landscape first gives the same class.
C11_ClassificationByTolerance ==
  probe.class # NoClass =>
    LET w == probe.width
        h == probe.height
        near169 == -9 * w < 100 * (9 * h - 16 * w) /\ 100 * (9 * h - 16 * w) < 9 * w
        near916 == -16 * w < 100 * (16 * h - 9 * w) /\ 100 * (16 * h - 9 * w) < 16 * w
        landscapeFirst == IF near916 THEN "landscape"
                          ELSE IF near169 THEN "portrait" ELSE "other"
    IN /\ probe.class \in {"portrait", "landscape", "other"}
       /\ (probe.class = "portrait") <=> near169
       /\ (probe.class = "landscape") <=> (~near169 /\ near916)
       /\ (probe.class = "other") <=> (~near169 /\ ~near916)
       /\ ~(near169 /\ near916)
       /\ probe.class = landscapeFirst
       /\ 9 * h = 16 * w => probe.class = "portrait"
       /\ 16 * h = 9 * w => probe.class = "landscape"
       /\ h = w => probe.class = "other"

C11_Witness ==
  /\ probe.width = 1000 /\ probe.height = 1778
  /\ probe.class = "portrait"

\* C12: the step that commits a video upload has put exactly one object, under
\* the key class "/" token "." ext, where class is the handler's aspectRatio
\* (set when ffprobe exited, from a run on the processed file), token is the
\* request's random token and ext the subtype of the declared media type; and
\* the videoURL it stores is the distribution endpoint, "/" and that same key.
C12_KeyAndUrlShape ==
  [][\A r \in Reqs :
       /\ (pc[r] = "ffprobe" /\ pc'[r] = "s3write") =>
            /\ spawned[r][Len(spawned[r])] =
                 <<"ffprobe", <<assetsRoot, "/", randomBytes(r), ".",
                                req[r].video.type[3], ".processed">> >>
            /\ aspectRatio'[r] \in {"landscape", "portrait", "other"}
       /\ (pc[r] = "s3write" /\ pc'[r] = "deleteProcessed") =>
            LET k == <<aspectRatio[r], "/", randomBytes(r), ".", req[r].video.type[3]>>
            IN /\ s3puts'[r] = {k}
               /\ k \in s3'
               /\ db'[req[r].videoId].videoURL = <<s3CfDistribution, "/">> \o k]_vars

C12_Witness ==
  \E r \in Reqs :
    /\ pc[r] = "deleteProcessed"
    /\ s3puts[r] = {<<"portrait", "/", randomBytes(r), ".", "mp4">>}
    /\ db[req[r].videoId].videoURL =
         <<"https://cdn.example", "/", "portrait", "/", randomBytes(r), ".", "mp4">>

\* C13: the step in which a video upload commits leaves every field of the
\* stored row other than videoURL as it was just before the step.  (Violated:
\* the row written back is the copy fetched when the request arrived.)
C13_CommitChangesOnlyVideoURL ==
  [][\A r \in Reqs :
       (IsVideo(r) /\ pc[r] = "s3write" /\ pc'[r] = "deleteProcessed") =>
         \A v \in VideoIds :
           db[v] # NoVideo =>
             /\ db'[v].id = db[v].id
             /\ db'[v].userID = db[v].userID
             /\ db'[v].thumbnailURL = db[v].thumbnailURL]_vars

\* paths and keys a video request has written, handed to a tool or published
PathsOf(r) == created[r] \cup {spawned[r][i][2] : i \in DOMAIN spawned[r]}
KeysOf(r) == s3puts[r] \cup (IF key[r] = NoKey THEN {} ELSE {key[r]})

\* C14: two different video requests never have a staged path or a storage
\* key in common, and a step of one request removes from the assets root only
\* files that this request created.
C14_NoSharedPathOrKey ==
  [][/\ \A r, q \in Reqs :
          (r # q /\ IsVideo(r)' /\ IsVideo(q)') =>
            /\ PathsOf(r)' \cap PathsOf(q)' = {}
            /\ KeysOf(r)' \cap KeysOf(q)' = {}
     /\ \A path \in files \ files' :
          \E r \in Reqs :
            /\ pc'[r] # pc[r]
            /\ path \in created[r]
            /\ \A q \in Reqs \ {r} : path \notin created[q]]_vars

C14_Witness ==
  \E r, q \in Reqs :
    /\ r # q
    /\ pc[r] = "deleteProcessed" /\ processedFilePath(r) \in files
    /\ pc[q] = "s3write" /\ processedFilePath(q) \in files
    /\ filePath(r) \notin files /\ filePath(q) \notin files

\* C15: from the moment ffprobe is started on the processed file until the
\* request ends, the raw file of the request is not under the assets root; and
\* at no time does a video request have more than two staged files on disk.
C15_RawDeletedBeforeProcessedUsed ==
  \A r \in Reqs :
    IsVideo(r) =>
      /\ ("ffprobe" \in Tools(r) \/ s3puts[r] # {}) =>
           (created[r] # {} /\ filePath(r) \notin files)
      /\ Cardinality(StagedFiles(r)) <= 2

C15_Witness ==
  \E r \in Reqs :
    /\ pc[r] = "ffprobe"
    /\ "ffprobe" \in Tools(r)
    /\ filePath(r) \in created[r]
    /\ StagedFiles(r) = {processedFilePath(r)}

\* the prefixes of a sequence
Prefixes(s) == {SubSeq(s, 1, n) : n \in 0..Len(s)}

\* C16: a video request runs ffmpeg on its raw file and then ffprobe on the
\* processed file, each at most once and in that order; ffmpeg only after the
\* raw file was written, ffprobe only after ffmpeg exited with 0 and left the
\* processed file, the object-store write only after ffprobe succeeded, and
\* the single updateVideo call only after the single object-store write.
C16_StagesInOrder ==
  \A r \in Reqs :
    IsVideo(r) =>
      /\ spawned[r] \in Prefixes(<< <<"ffmpeg", filePath(r)>>,
                                    <<"ffprobe", OutputFilePathOf(filePath(r))>> >>)
      /\ spawned[r] # <<>> => filePath(r) \in created[r]
      /\ "ffprobe" \in Tools(r) =>
           /\ OutputFilePathOf(filePath(r)) \in created[r]
           /\ fault[r] \notin {"stage", "normalize-spawn", "normalize-exit",
                               "normalize-stall"}
      /\ s3puts[r] # {} =>
           /\ "ffprobe" \in Tools(r)
           /\ Cardinality(s3puts[r]) = 1
           /\ fault[r] \in {"none", "commit"}
      /\ updates[r] <= 1
      /\ updates[r] = 1 => s3puts[r] # {}

C16_Witness ==
  \E r \in Reqs :
    /\ pc[r] = "deleteProcessed"
    /\ Len(spawned[r]) = 2
    /\ Cardinality(s3puts[r]) = 1
    /\ updates[r] = 1

\* C17: a request whose ffprobe exited with 0 and printed output that is not
\* a well-formed object with a numeric width and height for the first stream
\* ends with the format error of getVideoAspectRatio.  (Violated: unparsable
\* output, null streams and an empty streams array throw other errors.)
C17_MalformedOutputIsFormatFailure ==
  \A r \in Reqs :
    (IsVideo(r) /\ pc[r] = "done" /\ fault[r] = "probe-output") =>
      outcome[r] = Thrown("Error", FormatError)

\* C18: the step in which a video upload commits sets the stored videoURL of
\* its row to the URL of the key this request published, whatever URL another
\* upload stored there before; and no other step changes a stored videoURL.
\* So after two uploads for one row have both committed, the row carries the
\* URL of the one whose updateVideo call came last.
C18_LastWriterWins ==
  [][/\ \A r \in Reqs :
          (IsVideo(r) /\ pc[r] = "s3write" /\ pc'[r] = "deleteProcessed") =>
            db'[req[r].videoId].videoURL = <<s3CfDistribution, "/">> \o key[r]
     /\ \A v \in VideoIds :
          db'[v].videoURL # db[v].videoURL =>
            \E r \in Reqs :
              /\ IsVideo(r) /\ req[r].videoId = v
              /\ pc[r] = "s3write" /\ pc'[r] = "deleteProcessed"]_vars

C18_Witness ==
  \E r, q \in Reqs :
    /\ r # q /\ IsVideo(r) /\ IsVideo(q)
    /\ req[r].videoId = req[q].videoId
    /\ pc[q] = "done" /\ outcome[q] = Response("200")
    /\ pc[r] = "deleteProcessed"
    /\ \E class \in {"landscape", "portrait", "other"} :
         /\ db[req[r].videoId].videoURL =
              <<s3CfDistribution, "/", class, "/", randomBytes(r), ".", "mp4">>
         /\ s3puts[r] = {<<class, "/", randomBytes(r), ".", "mp4">>}
    /\ s3puts[q] # {}

\* C19: a videoURL stored in the videos table is the distribution endpoint,
\* "/" and a key that holds an object in the bucket; and a video request that
\* has called updateVideo has before that written its key to the bucket.
C19_CommittedUrlIsPublished ==
  /\ \A v \in VideoIds :
       (db[v] # NoVideo /\ db[v].videoURL # NoURL) =>
         \E k \in s3 : db[v].videoURL = <<s3CfDistribution, "/">> \o k
  /\ \A r \in Reqs :
       (IsVideo(r) /\ updates[r] > 0) =>
         (s3puts[r] # {} /\ s3puts[r] \subseteq s3)

C19_Witness ==
  \E r \in Reqs :
    /\ IsVideo(r) /\ updates[r] > 0 /\ fault[r] = "none"
    /\ db[req[r].videoId].videoURL # NoURL
    /\ \E k \in s3puts[r] : db[req[r].videoId].videoURL = UrlOf(k)

\* C20: a thumbnail request that ended with NotFound or Forbidden has written
\* no file under the assets root and has made no updateVideo call.  (Violated:
\* Bun.write is called before the row is fetched and checked, and the write
\* reaches the disk after the request was refused.)
C20_RejectedThumbnailChangesNothing ==
  \A r \in Reqs :
    (IsThumbnail(r) /\ outcome[r].kind \in {"NotFoundError", "UserForbiddenError"}) =>
      /\ created[r] = {}
      /\ updates[r] = 0

====
